---- MODULE Spec2Model ----
(***************************************************************************)
(* Configuration import of hmkconf: the useImportConfig hook               *)
(* (src/src/api/use-import-config.ts) driven by the ImportButton component *)
(* (src/unnamed/part_003) and the CompatibilityDialog                      *)
(* (src/src/components/configurator/settings/compatibility-dialog.tsx),   *)
(* and configuration export: the useExportConfig hook                      *)
(* (src/src/lib/notifications.ts) driven by the ExportButton component     *)
(* (src/unnamed/part_005).                                                 *)
(*                                                                         *)
(* React state is modelled as the committed value of each useState cell.   *)
(* A handler reads the state cells through the closure of the render it    *)
(* was created in: the values a running handler sees are the ones captured *)
(* when it was invoked, and a later setState does not change them.         *)
(*                                                                         *)
(* Strings that the code parses (firmware versions, profile keys) are      *)
(* sequences of one-character strings.  A keymap is the sequence of its    *)
(* layers and a layer is represented by its number of keys.  An optional   *)
(* field of a JavaScript object is a field that is, or is not, in the      *)
(* DOMAIN of the record.  Opaque values are 1 (truthy data) or 0 (a        *)
(* defined but falsy value such as null); an advanced-key table is the     *)
(* number of its entries (an array, always truthy).                        *)
(***************************************************************************)
EXTENDS Integers, Sequences, FiniteSets, TLC

(***************************************************************************)
(* Bounds of the model.                                                    *)
(***************************************************************************)
MaxImports == 2       \* imports started in one behaviour
NumKeys == 2          \* keys of the connected device (metadata.numKeys)
NumLayers == 2        \* layers of the connected device (NUM_LAYERS)
NumAdvancedKeys == 1  \* advanced-key slots of the connected device
DocProfiles == 3      \* profiles of a multi-profile document
MaxTasks == 4         \* tasks given to the TaskQueue in one behaviour
MaxExports == 1       \* exports started in one behaviour
DeviceProfile == 1     \* profile the device reports as current
DeviceFirmware == 5    \* firmware version the device reports

MaxFileSize == 5 * 1024 * 1024
MaxProfileCount == 5
LastProfile == 4      \* exportConfig: `profileId <= 4`

NaN == 0 - 1
Undefined == 0        \* an absent (falsy) numeric field of the metadata

Has(r, f) == f \in DOMAIN r
Truthy(v) == v # 0

SettingOrder == <<"keymap", "actuationMap", "advancedKeys", "tickRate", "calibration">>
SettingNames == {SettingOrder[i] : i \in 1..Len(SettingOrder)}

(***************************************************************************)
(* parseInt(s, 10) and String(n) on the strings of the model.              *)
(***************************************************************************)
Digits == <<"0", "1", "2", "3", "4", "5", "6", "7", "8", "9">>
IsDigit(c) == \E d \in 1..10 : Digits[d] = c
DigitVal(c) == (CHOOSE d \in 1..10 : Digits[d] = c) - 1

RECURSIVE ParseDigits(_, _, _)
ParseDigits(s, i, acc) ==
  IF i > Len(s) \/ ~IsDigit(s[i]) THEN acc
  ELSE ParseDigits(s, i + 1, acc * 10 + DigitVal(s[i]))

parseInt(s) ==
  IF Len(s) = 0 \/ ~IsDigit(s[1]) THEN NaN ELSE ParseDigits(s, 1, 0)

includesDot(s) == \E i \in 1..Len(s) : s[i] = "."

\* firmwareVersionStr.split('.')[0]
splitFirst(s) ==
  IF includesDot(s)
  THEN SubSeq(s, 1, (CHOOSE i \in 1..Len(s) : s[i] = "." /\ \A j \in 1..(i - 1) : s[j] # ".") - 1)
  ELSE s

\* String(n) for 0 <= n <= 9 and for NaN
NumToString(n) == IF n \in 0..9 THEN <<Digits[n + 1]>> ELSE <<"N", "a", "N">>

RECURSIVE Concat(_)
Concat(ss) == IF ss = <<>> THEN <<>> ELSE Head(ss) \o Concat(Tail(ss))

(***************************************************************************)
(* validateConfigFile: TRUE when the parsed JSON value is accepted.  Every *)
(* rejecting branch emits exactly one destructive toast before it returns. *)
(***************************************************************************)
keymapValid(km) == Len(km) # 0 /\ \A i \in 1..Len(km) : km[i] # 0

profileValid(p) ==
  /\ DOMAIN p # {}
  /\ Has(p, "keymap") => keymapValid(p.keymap)

headerValid(config) ==
  /\ Has(config, "version")
  /\ Has(config, "timestamp")
  /\ Has(config, "deviceInfo")
  /\ Has(config.deviceInfo, "name")
  /\ Has(config.deviceInfo, "firmwareVersion")
  /\ Has(config.deviceInfo, "deviceId")

validateConfigFile(config) ==
  /\ headerValid(config)
  /\ IF Has(config, "profiles")
     THEN /\ Len(config.profiles) # 0
          /\ \A i \in 1..Len(config.profiles) : profileValid(config.profiles[i].data)
     ELSE /\ Has(config, "settings")
          /\ \E k \in SettingNames : Has(config.settings, k)
          /\ Has(config.settings, "keymap") => keymapValid(config.settings.keymap)

validateToasts(config) == IF validateConfigFile(config) THEN 0 ELSE 1

(***************************************************************************)
(* checkCompatibility(configFile) against the connected device.  fw is the *)
(* outcome of `await device.firmwareVersion()`: [ok |-> TRUE, value |-> n] *)
(* or [ok |-> FALSE] when the call rejects.                                *)
(***************************************************************************)
Issue(t, s, m) == [type |-> t, severity |-> s, message |-> m]

hasTruthyCalibration(configFile) ==
  Has(configFile, "settings") /\ Has(configFile.settings, "calibration")
    /\ Truthy(configFile.settings.calibration)

\* an analyzer that never finds a keymap too wide
keymapNeverTooWide(obj, dev) == FALSE

\* first keymap row wider than the device has keys
keymapTooWide(obj, dev) == Has(obj, "keymap") /\ obj.keymap[1] > dev.numKeys

deviceIssues(configFile, dev) ==
  IF configFile.deviceInfo.name # dev.name
  THEN <<Issue("device", "warning", "name")>> \o
       (IF Has(configFile, "profiles")
        THEN IF \E i \in 1..Len(configFile.profiles) :
                   keymapTooWide(configFile.profiles[i].data, dev)
             THEN <<Issue("device", "error", "moreKeys")>> ELSE <<>>
        ELSE IF keymapTooWide(configFile.settings, dev)
             THEN <<Issue("device", "error", "moreKeys")>> ELSE <<>>)
  ELSE <<>>

configFirmwareVersion(configFile) ==
  LET firmwareVersionStr == configFile.deviceInfo.firmwareVersion
  IN  IF includesDot(firmwareVersionStr)
      THEN parseInt(splitFirst(firmwareVersionStr))
      ELSE parseInt(firmwareVersionStr)

\* an analyzer that drops a failed firmware query without a word
firmwareIssuesSilent(configFile, fw) ==
  IF ~fw.ok THEN <<>>
  ELSE IF configFirmwareVersion(configFile) = NaN
       THEN <<Issue("firmware", "warning", "invalidFormat")>>
  ELSE IF fw.value < configFirmwareVersion(configFile)
       THEN <<Issue("firmware", "warning", "newerFirmware")>>
  ELSE <<>>

\* an analyzer that also warns when the two versions are equal
firmwareIssuesOrEqual(configFile, fw) ==
  IF ~fw.ok THEN <<Issue("firmware", "warning", "queryFailed")>>
  ELSE IF configFirmwareVersion(configFile) = NaN
       THEN <<Issue("firmware", "warning", "invalidFormat")>>
  ELSE IF fw.value <= configFirmwareVersion(configFile)
       THEN <<Issue("firmware", "warning", "newerFirmware")>>
  ELSE <<>>

firmwareIssues(configFile, fw) ==
  IF ~fw.ok THEN <<Issue("firmware", "warning", "queryFailed")>>
  ELSE IF configFirmwareVersion(configFile) = NaN
       THEN <<Issue("firmware", "warning", "invalidFormat")>>
  ELSE IF fw.value < configFirmwareVersion(configFile)
       THEN <<Issue("firmware", "warning", "newerFirmware")>>
  ELSE <<>>

\* keymap layer count, then key count of each layer up to the first mismatch
keymapIssues(obj, dev) ==
  IF Has(obj, "keymap") /\ Truthy(dev.numLayers)
  THEN IF Len(obj.keymap) # dev.numLayers
       THEN <<Issue("settings", "error", "layerCount")>>
       ELSE IF \E i \in 1..Len(obj.keymap) : obj.keymap[i] # dev.numKeys
            THEN <<Issue("settings", "error", "keyCount")>> ELSE <<>>
  ELSE <<>>

advancedKeysIssues(obj, dev) ==
  IF Has(obj, "advancedKeys") /\ Truthy(dev.numAdvancedKeys)
       /\ obj.advancedKeys > dev.numAdvancedKeys
  THEN <<Issue("settings", "warning", "advancedKeys")>> ELSE <<>>

profileIssues(configFile, dev) ==
  Concat([i \in 1..Len(configFile.profiles) |->
            keymapIssues(configFile.profiles[i].data, dev)
              \o advancedKeysIssues(configFile.profiles[i].data, dev)])

\* the legacy list is Object.keys(settings) filtered on !== undefined
availableSettings(configFile) ==
  IF Has(configFile, "profiles")
  THEN <<"profiles">> \o
       (IF hasTruthyCalibration(configFile) THEN <<"calibration">> ELSE <<>>)
  ELSE SelectSeq(SettingOrder, LAMBDA k : Has(configFile.settings, k))

settingsIssues(configFile, dev) ==
  IF Has(configFile, "profiles")
  THEN profileIssues(configFile, dev)
       \o (IF Len(configFile.profiles) > MaxProfileCount
           THEN <<Issue("settings", "warning", "profileCount")>> ELSE <<>>)
       \o (IF (\A i \in 1..Len(configFile.profiles) :
                  DOMAIN configFile.profiles[i].data = {})
               /\ ~hasTruthyCalibration(configFile)
           THEN <<Issue("settings", "error", "nothing")>> ELSE <<>>)
  ELSE keymapIssues(configFile.settings, dev)
       \o advancedKeysIssues(configFile.settings, dev)

checkCompatibility(configFile, dev, fw) ==
  deviceIssues(configFile, dev)
    \o firmwareIssues(configFile, fw)
    \o settingsIssues(configFile, dev)
    \o (IF Len(availableSettings(configFile)) = 0
        THEN <<Issue("settings", "error", "nothing")>> ELSE <<>>)

\* the reads of checkCompatibility outside its try block that can raise a
\* TypeError: the legacy branches read members of configFile.settings
checkThrows(configFile) ==
  ~Has(configFile, "profiles") /\ ~Has(configFile, "settings")

hasErrors(issues) == \E i \in 1..Len(issues) : issues[i].severity = "error"

(***************************************************************************)
(* applySettings: the device writes of one apply-unit, in the order the    *)
(* code issues them.  `throws` is TRUE when the unit ends in a TypeError   *)
(* (profiles[parseInt(key)] is undefined), which the per-setting catch     *)
(* turns into a warning.  cancel is the closure's cancelImport.            *)
(***************************************************************************)
Write(op, profile, layer, keys) ==
  [op |-> op, profile |-> profile, layer |-> layer, keys |-> keys]

WriteOps == {"setKeymap", "setActuationMap", "setAdvancedKeys", "setTickRate", "setCalibration"}

\* for (layer ...) { if (cancelImport) break; await device.setKeymap(...) }
keymapWrites(obj, profile, cancel) ==
  IF Has(obj, "keymap") /\ ~cancel
  THEN [l \in 1..Len(obj.keymap) |-> Write("setKeymap", profile, l - 1, obj.keymap[l])]
  ELSE <<>>

actuationMapWrites(obj, profile) ==
  IF Has(obj, "actuationMap") /\ Truthy(obj.actuationMap)
  THEN <<Write("setActuationMap", profile, 0, 0)>> ELSE <<>>

advancedKeysWrites(obj, profile) ==
  IF Has(obj, "advancedKeys")
  THEN <<Write("setAdvancedKeys", profile, 0, obj.advancedKeys)>> ELSE <<>>

tickRateWrites(obj, profile) ==
  IF Has(obj, "tickRate")
  THEN <<Write("setTickRate", profile, 0, 0)>> ELSE <<>>

calibrationWrites(configFile) ==
  IF hasTruthyCalibration(configFile)
  THEN <<Write("setCalibration", 0, 0, 0)>> ELSE <<>>

\* configFile.profiles[profileNum]: the entry whose key is String(profileNum)
profilesGet(profiles, key) ==
  IF \E i \in 1..Len(profiles) : profiles[i].key = key
  THEN profiles[CHOOSE i \in 1..Len(profiles) : profiles[i].key = key].data
  ELSE [undefined |-> TRUE]

isUndefined(v) == Has(v, "undefined")

RECURSIVE profilesPlan(_, _, _)
profilesPlan(configFile, i, cancel) ==
  IF i > Len(configFile.profiles)
  THEN [writes |-> calibrationWrites(configFile), throws |-> FALSE]
  ELSE LET profileNum == parseInt(configFile.profiles[i].key)
           profileData == profilesGet(configFile.profiles, NumToString(profileNum))
       IN  IF isUndefined(profileData)
           THEN [writes |-> <<>>, throws |-> TRUE]
           ELSE LET rest == profilesPlan(configFile, i + 1, cancel)
                IN  [writes |-> keymapWrites(profileData, profileNum, cancel)
                                  \o actuationMapWrites(profileData, profileNum)
                                  \o advancedKeysWrites(profileData, profileNum)
                                  \o tickRateWrites(profileData, profileNum)
                                  \o rest.writes,
                     throws |-> rest.throws]

\* the switch of the legacy branch; it reads configFile.settings, which is
\* undefined (a TypeError) when a multi-profile document has no settings
legacyPlan(configFile, setting, currentProfile, cancel) ==
  IF ~Has(configFile, "settings")
  THEN [writes |-> <<>>, throws |-> setting \in SettingNames]
  ELSE [writes |->
          CASE setting = "keymap" -> keymapWrites(configFile.settings, currentProfile, cancel)
            [] setting = "actuationMap" -> actuationMapWrites(configFile.settings, currentProfile)
            [] setting = "advancedKeys" -> advancedKeysWrites(configFile.settings, currentProfile)
            [] setting = "tickRate" -> tickRateWrites(configFile.settings, currentProfile)
            [] setting = "calibration" -> calibrationWrites(configFile)
            [] OTHER -> <<>>,
        throws |-> FALSE]

unitPlan(configFile, setting, currentProfile, cancel) ==
  IF Has(configFile, "profiles") /\ setting = "profiles"
  THEN profilesPlan(configFile, 1, cancel)
  ELSE legacyPlan(configFile, setting, currentProfile, cancel)

\* a unit is counted only when its last write succeeded
countStepIfSucceeded(done, failed) == IF failed THEN done ELSE done + 1

\* `completedSteps++` at the end of a unit's try block; failed tells whether
\* the unit's last write was rejected, which the code does not look at
countStep(done, failed) == done + 1

\* `let totalSteps = selectedSettings.length`
totalSteps(selected) == Len(selected)

\* a catch block that swallows the failure without a toast
warnOnFailureSilent(ok, warn) == warn

\* the catch around a device write: one warning toast per rejected write
warnOnFailure(ok, warn) == IF ok THEN warn ELSE warn + 1

\* a loop that never looks at the flag
cancelledNever(cancel) == FALSE

\* `if (cancelImport)` at the head of the loop body and after the loop
cancelled(cancel) == cancel

\* every write goes to profile 0 and nothing is said
resolveProfileDefault(ok) == 0

\* `currentProfile = await device.getProfile()`, or 0 from the catch
resolveProfile(ok) == IF ok THEN DeviceProfile ELSE 0

\* a return that leaves the busy flag as it is
finallyIsImportingKept(importing) == importing

\* `finally { setIsImporting(false) }` of importConfig, applySettings and
\* handleCompatibilityContinue
finallyIsImporting(importing) == FALSE

\* a failed write that ends its unit
afterWriteAbortsUnit(ok, k) == IF ok THEN k + 1 ELSE k + 1000

\* the index of the write issued after write k of a unit has settled: the
\* catch around each device call swallows the failure
afterWrite(ok, k) == k + 1

\* an auto-apply that leaves the global settings out
allSettingsWithoutCalibration(configFile) ==
  IF Has(configFile, "profiles")
  THEN <<"profiles">>
  ELSE SelectSeq(SettingOrder, LAMBDA k : Has(configFile.settings, k) /\ k # "calibration")

\* importConfig: the selection of the auto-apply path
allSettings(configFile) ==
  IF Has(configFile, "profiles")
  THEN <<"profiles">> \o
       (IF hasTruthyCalibration(configFile) THEN <<"calibration">> ELSE <<>>)
  ELSE SelectSeq(SettingOrder, LAMBDA k : Has(configFile.settings, k))

\* an import that pauses only for error-severity issues
needsReviewOnlyForErrors(issues) == hasErrors(issues)

\* importConfig: `if (issues.length > 0)` pauses for the dialog
needsReview(issues) == Len(issues) > 0

\* an apply that does not raise the busy flag
applyIsImportingKept(importing) == importing

\* applySettings: `setIsImporting(true)` as its try block opens
applyIsImporting(importing) == TRUE

\* a finally block that leaves the dialog as it is
finallyShowDialogKept(who, show) == show

\* handleCompatibilityContinue: `finally { setShowCompatibilityDialog(false) ... }`;
\* importConfig has no such line
finallyShowDialog(who, show) ==
  IF who = "handleCompatibilityContinue" THEN FALSE ELSE show

\* a size check that lets a file one byte over the cap through
fileTooLargeOffByOne(f) == f.size > MaxFileSize + 1

\* importConfig: `file.size > 5 * 1024 * 1024`
fileTooLarge(f) == f.size > MaxFileSize

\* importConfig: `!file.name.toLowerCase().endsWith('.json')`
wrongExtension(f) == ~f.json

\* a dialog that forgets to look at the severity of the issues
continueEnabledDespiteErrors(issues, selected, isApplying) ==
  ~(Len(selected) = 0 \/ isApplying)

\* CompatibilityDialog: the "Import Selected" button is enabled
continueEnabled(issues, selected, isApplying) ==
  ~(hasErrors(issues) \/ Len(selected) = 0 \/ isApplying)

(***************************************************************************)
(* The connected device and the files offered for import.                  *)
(***************************************************************************)

\* metadata as deviceMetadataSchema types it: no numLayers, no numAdvancedKeys
SchemaDevice ==
  [name |-> "TestDevice", numKeys |-> NumKeys, numLayers |-> Undefined,
   numAdvancedKeys |-> Undefined]

\* metadata that carries the two counts, as the device of the test suite does
FullDevice ==
  [name |-> "TestDevice", numKeys |-> NumKeys, numLayers |-> NumLayers,
   numAdvancedKeys |-> NumAdvancedKeys]

Devices == {SchemaDevice, FullDevice}

Null == [null |-> TRUE]

Restrict(r, S) == [f \in S |-> r[f]]

GoodKeymap == [l \in 1..NumLayers |-> NumKeys]
ShortKeymap == [l \in 1..(NumLayers - 1) |-> NumKeys]
WideKeymap == [l \in 1..NumLayers |-> NumKeys + 1]

Header(name, fw) ==
  [version |-> "1.0", timestamp |-> "t",
   deviceInfo |-> [name |-> name, firmwareVersion |-> fw, deviceId |-> "device-123"]]

Fields(km, adv, cal) ==
  [keymap |-> km, actuationMap |-> 1, advancedKeys |-> adv, tickRate |-> 1,
   calibration |-> cal]

Legacy(h, fields) == h @@ [settings |-> fields]

ProfileList(n, data) == [i \in 1..n |-> [key |-> NumToString(i - 1), data |-> data]]

Profiles(h, n, data) == h @@ [profiles |-> ProfileList(n, data)]

ProfilesCal(h, n, data) ==
  h @@ [profiles |-> ProfileList(n, data), settings |-> [calibration |-> 1]]

SameHeader == Header("TestDevice", <<"5">>)
OtherDevice == Header("OtherDevice", <<"5">>)
NewerFirmware == Header("TestDevice", <<"1", "0">>)
DottedFirmware == Header("TestDevice", <<"2", ".", "1">>)
BadFirmware == Header("TestDevice", <<"x">>)

Full == Fields(GoodKeymap, NumAdvancedKeys, 1)

LegacyBodies ==
  { Full,
    Restrict(Fields(ShortKeymap, 0, 0), {"keymap", "tickRate"}),
    Restrict(Fields(WideKeymap, 0, 0), {"keymap"}),
    Restrict(Fields(GoodKeymap, 0, 0), {"tickRate", "calibration"}) }

ProfileBodies ==
  { Restrict(Full, {"keymap", "tickRate"}),
    Restrict(Full, {"actuationMap", "advancedKeys"}) }

ValidConfigs ==
  {Legacy(SameHeader, b) : b \in LegacyBodies}
    \cup {Profiles(SameHeader, DocProfiles, b) : b \in ProfileBodies}
    \cup {Profiles(SameHeader, 1, Restrict(Fields(ShortKeymap, 0, 0), {"keymap"})),
          ProfilesCal(SameHeader, 1, Restrict(Full, {"tickRate"}))}
    \cup {Legacy(h, Full) : h \in {OtherDevice, NewerFirmware, DottedFirmware, BadFirmware}}
    \cup {Legacy(OtherDevice, Restrict(Fields(WideKeymap, 0, 0), {"keymap"})),
          Legacy(SameHeader,
                 Restrict(Fields(GoodKeymap, NumAdvancedKeys + 1, 0), {"advancedKeys"})),
          Profiles(OtherDevice, DocProfiles, Restrict(Full, {"keymap", "tickRate"})),
          ProfilesCal(NewerFirmware, 1, Restrict(Full, {"keymap", "actuationMap"}))}

InvalidConfigs ==
  { Restrict(SameHeader, {"timestamp", "deviceInfo"}) @@ [settings |-> Full],
    SameHeader,
    Legacy(SameHeader, <<>>),
    Legacy(SameHeader, Restrict(Fields(<<>>, 0, 0), {"keymap", "tickRate"})),
    SameHeader @@ [profiles |-> <<>>],
    Profiles(SameHeader, 1, <<>>) }

File(size, json, wellFormed, config) ==
  [size |-> size, json |-> json, wellFormed |-> wellFormed, config |-> config]

Files ==
  {File(1, TRUE, TRUE, c) : c \in ValidConfigs \cup InvalidConfigs}
    \cup { File(MaxFileSize + 1, TRUE, TRUE, Legacy(SameHeader, Full)),
           File(MaxFileSize, TRUE, TRUE,
                Legacy(SameHeader, Restrict(Full, {"tickRate"}))),
           File(1, FALSE, TRUE, Legacy(SameHeader, Full)),
           File(1, TRUE, FALSE, Null) }

(***************************************************************************)
(* State.                                                                  *)
(***************************************************************************)
VARIABLES
  device,                  \* metadata of the connected device
  isImporting,             \* useState cells of useImportConfig
  showCompatibilityDialog,
  currentConfigFile,
  compatibilityIssues,
  cancelImport,
  pc,                      \* await the running handler is suspended at
  caller,                  \* handler that is running, or ran last
  file,                    \* importConfig: its argument
  configFile,              \* document being checked or applied
  issues,                  \* importConfig: result of checkCompatibility
  selectedSettings,        \* applySettings: its second argument
  closureCancel,           \* cancelImport as the running handler's closure has it
  currentProfile,          \* applySettings: locals
  unit,
  k,
  completedSteps,
  calls,                   \* device calls issued since the handler started
  errorToasts,             \* destructive toasts since the handler started
  warningToasts,           \* warning toasts since the handler started
  writeWarnings,           \* device writes those toasts say have failed
  result,                  \* value the handler returned
  outcome,                 \* how the latest import or apply ended
  imports,                 \* importConfig calls so far
  isExporting,             \* useState cell of useExportConfig
  epc,                     \* await exportConfig is suspended at
  profileId,               \* exportConfig: locals
  fetched,                 \* fetchProfileData: fields of the profile read so far
  profilesData,
  firmwareVersion,
  calibrationData,
  configFileData,          \* document handed to the download, or Null
  exportWarnings,          \* toast.warning calls since the export started
  exportErrors,            \* toast.error calls since the export started
  exportResult,            \* value exportConfig returned
  exports,                 \* exportConfig calls so far
  doc,                     \* document a function of the hooks is applied to
  answer,                  \* what device.firmwareVersion() answers meanwhile
  applied,                 \* functions applied to doc so far
  accepted,                \* validateConfigFile(doc) of the import hook
  docIssues,               \* checkCompatibility(doc)
  text,                    \* JSON.stringify(doc)
  parsed,                  \* validateConfigFile(JSON.parse(text)) of the schema
  queue,                   \* TaskQueue: tasks waiting, oldest first
  isProcessing,            \* TaskQueue: its process loop is running
  executing,               \* tasks whose body has started and not settled
  promises                 \* promise returned for each task, in the order of the calls

hookVars == <<isImporting, showCompatibilityDialog, currentConfigFile,
              compatibilityIssues, cancelImport>>
applyVars == <<selectedSettings, currentProfile, unit, k, completedSteps>>
importVars == <<hookVars, pc, caller, file, configFile, issues, closureCancel,
                applyVars, calls, errorToasts, warningToasts, writeWarnings, result,
                outcome, imports>>
exportVars == <<isExporting, epc, profileId, fetched, profilesData, firmwareVersion,
                calibrationData, configFileData, exportWarnings, exportErrors,
                exportResult, exports>>
docVars == <<doc, answer, applied, accepted, docIssues, text, parsed>>
queueVars == <<queue, isProcessing, executing, promises>>
vars == <<device, importVars, exportVars, docVars, queueVars>>

ApplyPcs == {"getProfile", "write", "delay"}

HooksIdle ==
  /\ device \in Devices
  /\ isImporting = FALSE
  /\ showCompatibilityDialog = FALSE
  /\ currentConfigFile = Null
  /\ compatibilityIssues = <<>>
  /\ cancelImport = FALSE
  /\ pc = "idle"
  /\ caller = "none"
  /\ file = Null
  /\ configFile = Null
  /\ issues = <<>>
  /\ selectedSettings = <<>>
  /\ closureCancel = FALSE
  /\ currentProfile = 0
  /\ unit = 0
  /\ k = 0
  /\ completedSteps = 0
  /\ calls = <<>>
  /\ errorToasts = 0
  /\ warningToasts = 0
  /\ writeWarnings = {}
  /\ result = "none"
  /\ outcome = "none"
  /\ imports = 0
  /\ isExporting = FALSE
  /\ epc = "idle"
  /\ profileId = 0
  /\ fetched = 0
  /\ profilesData = <<>>
  /\ firmwareVersion = 0
  /\ calibrationData = Undefined
  /\ configFileData = Null
  /\ exportWarnings = 0
  /\ exportErrors = 0
  /\ exportResult = "none"
  /\ exports = 0

\* a TaskQueue as its constructor leaves it
QueueIdle ==
  /\ queue = <<>>
  /\ isProcessing = FALSE
  /\ executing = {}
  /\ promises = <<>>

Init ==
  /\ HooksIdle
  /\ QueueIdle
  /\ doc = Null
  /\ answer = [ok |-> FALSE]
  /\ applied = {}
  /\ accepted = FALSE
  /\ docIssues = <<>>
  /\ text = Null
  /\ parsed = [ok |-> FALSE]

(***************************************************************************)
(* importConfig up to `await file.text()`.  The size and extension checks  *)
(* return before anything is awaited, and the finally block clears         *)
(* isImporting in the same step.                                           *)
(***************************************************************************)
Reject(toasts) ==
  /\ pc' = "idle"
  /\ errorToasts' = toasts
  /\ result' = "false"
  /\ outcome' = "Rejected"
  /\ isImporting' = finallyIsImporting(isImporting)

ImportConfig(f) ==
  /\ pc = "idle"
  /\ ~isImporting
  /\ imports < MaxImports
  /\ imports' = imports + 1
  /\ caller' = "importConfig"
  /\ file' = f
  /\ configFile' = Null
  /\ issues' = <<>>
  /\ closureCancel' = cancelImport
  /\ selectedSettings' = <<>>
  /\ currentProfile' = 0
  /\ unit' = 0
  /\ k' = 0
  /\ completedSteps' = 0
  /\ calls' = <<>>
  /\ warningToasts' = 0
  /\ writeWarnings' = {}
  /\ IF fileTooLarge(f) \/ wrongExtension(f)
     THEN Reject(1)
     ELSE /\ pc' = "readFile"
          /\ isImporting' = TRUE
          /\ errorToasts' = 0
          /\ result' = "none"
          /\ outcome' = "none"
  /\ UNCHANGED <<queueVars, docVars, exportVars, device, showCompatibilityDialog, currentConfigFile,
                 compatibilityIssues, cancelImport>>

(***************************************************************************)
(* file.text() settles; JSON.parse and validateConfigFile follow, and then *)
(* checkCompatibility runs up to `await device.firmwareVersion()`.         *)
(***************************************************************************)
ReadFile(ok) ==
  /\ pc = "readFile"
  /\ IF ~ok \/ ~file.wellFormed
     THEN Reject(1) /\ UNCHANGED <<configFile, calls>>
     ELSE IF ~validateConfigFile(file.config)
     THEN Reject(validateToasts(file.config) + 1) /\ UNCHANGED <<configFile, calls>>
     ELSE /\ configFile' = file.config
          /\ calls' = Append(calls, Write("firmwareVersion", 0, 0, 0))
          /\ pc' = "firmwareVersion"
          /\ UNCHANGED <<errorToasts, result, outcome, isImporting>>
  /\ UNCHANGED <<queueVars, docVars, exportVars, device, showCompatibilityDialog, currentConfigFile,
                 compatibilityIssues, cancelImport, caller, file, issues,
                 closureCancel, applyVars, warningToasts, writeWarnings, imports>>

(***************************************************************************)
(* applySettings.  loopFrom runs the `for (const setting of ...)` loop     *)
(* from the head of unit i up to the next await, or to the return that     *)
(* follows the loop: it yields the point the handler is suspended at.      *)
(***************************************************************************)
Point(p, i, j, done, warn, cl) ==
  [pc |-> p, unit |-> i, k |-> j, completedSteps |-> done, warningToasts |-> warn,
   calls |-> cl]

RECURSIVE loopFrom(_, _, _, _, _, _, _, _)
loopFrom(cfg, sel, cp, cancel, i, done, warn, cl) ==
  IF i > Len(sel) \/ cancelled(cancel)
  THEN Point("return", i, 0, done, warn, cl)
  ELSE LET plan == unitPlan(cfg, sel[i], cp, cancel)
       IN  IF plan.writes # <<>>
           THEN Point("write", i, 1, done, warn, Append(cl, plan.writes[1]))
           ELSE IF plan.throws
           THEN loopFrom(cfg, sel, cp, cancel, i + 1, done, warn + 1, cl)
           ELSE Point("delay", i, 0, countStep(done, FALSE), warn, cl)

\* a device write of unit i has settled: the next await of the handler
afterSettled(cfg, sel, cp, cancel, i, j, ok, done, warn, cl) ==
  LET plan == unitPlan(cfg, sel[i], cp, cancel)
      w == warnOnFailure(ok, warn)
      n == afterWrite(ok, j)
  IN  IF n <= Len(plan.writes)
      THEN Point("write", i, n, done, w, Append(cl, plan.writes[n]))
      ELSE IF plan.throws
      THEN loopFrom(cfg, sel, cp, cancel, i + 1, done, w + 1, cl)
      ELSE Point("delay", i, 0, countStep(done, ~ok), w, cl)

\* the return value of applySettings: `return completedSteps > 0`, or
\* `return false` where the closure's cancelImport is seen set
applyResult(cancel, done) == IF ~cancelled(cancel) /\ done > 0 THEN "true" ELSE "false"

\* resume the handler at point p; at "return" applySettings returns, its
\* finally block runs, and then the finally block of its caller
Resume(p) ==
  /\ unit' = p.unit
  /\ k' = p.k
  /\ completedSteps' = p.completedSteps
  /\ warningToasts' = p.warningToasts
  /\ calls' = p.calls
  /\ IF p.pc = "return"
     THEN /\ pc' = "idle"
          /\ outcome' = IF cancelled(closureCancel) THEN "Cancelled" ELSE "Completed"
          /\ result' = IF caller = "importConfig"
                       THEN applyResult(closureCancel, p.completedSteps)
                       ELSE "void"
          /\ isImporting' = finallyIsImporting(isImporting)
          /\ cancelImport' = FALSE
          /\ showCompatibilityDialog' = finallyShowDialog(caller, showCompatibilityDialog)
     ELSE /\ pc' = p.pc
          /\ UNCHANGED <<outcome, result, isImporting, cancelImport,
                         showCompatibilityDialog>>

\* applySettings up to `await device.getProfile()`
StartApply(cfg, sel) ==
  /\ configFile' = cfg
  /\ selectedSettings' = sel
  /\ cancelImport' = FALSE
  /\ isImporting' = applyIsImporting(isImporting)
  /\ pc' = "getProfile"

(***************************************************************************)
(* device.firmwareVersion() settles and checkCompatibility returns: the    *)
(* import pauses for the dialog, or goes on to apply every setting.        *)
(***************************************************************************)
FirmwareVersion(ok) ==
  /\ pc = "firmwareVersion"
  /\ LET fw == IF ok THEN [ok |-> TRUE, value |-> DeviceFirmware] ELSE [ok |-> FALSE]
         found == checkCompatibility(configFile, device, fw)
     IN  /\ issues' = found
         /\ IF needsReview(found)
            THEN /\ currentConfigFile' = configFile
                 /\ compatibilityIssues' = found
                 /\ showCompatibilityDialog' = TRUE
                 /\ warningToasts' = warningToasts + 1
                 /\ result' = "true"
                 /\ outcome' = "Review"
                 /\ isImporting' = finallyIsImporting(isImporting)
                 /\ pc' = "idle"
                 /\ UNCHANGED <<configFile, selectedSettings, cancelImport, calls>>
            ELSE /\ StartApply(configFile, allSettings(configFile))
                 /\ calls' = Append(calls, Write("getProfile", 0, 0, 0))
                 /\ UNCHANGED <<currentConfigFile, compatibilityIssues,
                                showCompatibilityDialog, warningToasts, result, outcome>>
  /\ UNCHANGED <<queueVars, docVars, exportVars, device, caller, file, closureCancel, currentProfile, unit, k,
                 completedSteps, errorToasts, writeWarnings, imports>>

\* device.getProfile() settles; the loop starts
GetProfile(ok) ==
  /\ pc = "getProfile"
  /\ currentProfile' = resolveProfile(ok)
  /\ Resume(loopFrom(configFile, selectedSettings, currentProfile', closureCancel,
                     1, completedSteps, warnOnFailure(ok, warningToasts),
                     calls))
  /\ UNCHANGED <<queueVars, docVars, exportVars, device, currentConfigFile, compatibilityIssues, caller, file,
                 configFile, issues, selectedSettings, closureCancel, errorToasts,
                 writeWarnings, imports>>

\* the device write in flight settles
DeviceWrite(ok) ==
  /\ pc = "write"
  /\ Resume(afterSettled(configFile, selectedSettings, currentProfile, closureCancel,
                         unit, k, ok, completedSteps, warningToasts, calls))
  /\ writeWarnings' = IF ok THEN writeWarnings
                       ELSE writeWarnings \cup {calls[Len(calls)].op}
  /\ UNCHANGED <<queueVars, docVars, exportVars, device, currentConfigFile, compatibilityIssues, caller, file,
                 configFile, issues, selectedSettings, closureCancel, currentProfile,
                 errorToasts, imports>>

\* the 300 ms pause after a unit elapses
Delay ==
  /\ pc = "delay"
  /\ Resume(loopFrom(configFile, selectedSettings, currentProfile, closureCancel,
                     unit + 1, completedSteps, warningToasts, calls))
  /\ UNCHANGED <<queueVars, docVars, exportVars, device, currentConfigFile, compatibilityIssues, caller, file,
                 configFile, issues, selectedSettings, closureCancel, currentProfile,
                 errorToasts, writeWarnings, imports>>

(***************************************************************************)
(* The dialog.  It is mounted while currentConfigFile is set and open      *)
(* while showCompatibilityDialog is; "Import Selected" passes the checked  *)
(* settings to handleCompatibilityContinue.                                *)
(***************************************************************************)
dialogOpen == currentConfigFile # Null /\ showCompatibilityDialog

Selections(cfg) ==
  IF cfg = Null THEN {}
  ELSE LET avail == availableSettings(cfg)
           names == {avail[i] : i \in 1..Len(avail)}
       IN  {SelectSeq(avail, LAMBDA s : s \in S) : S \in SUBSET names}

HandleCompatibilityContinue(sel) ==
  /\ pc = "idle"
  /\ dialogOpen
  /\ continueEnabled(compatibilityIssues, sel, isImporting)
  /\ caller' = "handleCompatibilityContinue"
  /\ closureCancel' = cancelImport
  /\ StartApply(currentConfigFile, sel)
  /\ calls' = <<Write("getProfile", 0, 0, 0)>>
  /\ file' = Null
  /\ issues' = <<>>
  /\ currentProfile' = 0
  /\ unit' = 0
  /\ k' = 0
  /\ completedSteps' = 0
  /\ errorToasts' = 0
  /\ warningToasts' = 0
  /\ writeWarnings' = {}
  /\ result' = "none"
  /\ outcome' = "none"
  /\ UNCHANGED <<queueVars, docVars, exportVars, device, showCompatibilityDialog, currentConfigFile,
                 compatibilityIssues, imports>>

\* handleCompatibilityCancel: the dialog's Cancel button, or its
\* onOpenChange(false).  A review that is cancelled ends its import as
\* Cancelled; the outcome of a handler that ran since is left as it is.
HandleCompatibilityCancel ==
  /\ dialogOpen
  /\ cancelImport' = IF isImporting THEN TRUE ELSE cancelImport
  /\ showCompatibilityDialog' = FALSE
  /\ currentConfigFile' = Null
  /\ compatibilityIssues' = <<>>
  /\ outcome' = IF outcome = "Review" THEN "Cancelled" ELSE outcome
  /\ UNCHANGED <<queueVars, docVars, exportVars, device, isImporting, pc, caller, file, configFile, issues,
                 closureCancel, applyVars, calls, errorToasts, warningToasts,
                 writeWarnings, result, imports>>

\* ImportButton: the cancel button, shown while isImporting
CancelImport ==
  /\ isImporting
  /\ ~cancelImport
  /\ cancelImport' = TRUE
  /\ UNCHANGED <<queueVars, docVars, exportVars, device, isImporting, showCompatibilityDialog, currentConfigFile,
                 compatibilityIssues, pc, caller, file, configFile, issues,
                 closureCancel, applyVars, calls, errorToasts, warningToasts,
                 writeWarnings, result, outcome, imports>>

(***************************************************************************)
(* useExportConfig: exportConfig reads every profile and the calibration   *)
(* from the device and builds a multi-profile document.  A device read     *)
(* resolves (ok) or rejects; a read that resolves yields the data the      *)
(* device holds, which is that of a full profile.                          *)
(***************************************************************************)
ProfileFields == <<"keymap", "actuationMap", "advancedKeys", "tickRate">>

\* getFirmwareVersion: the catch turns a rejected query into 0
getFirmwareVersion(ok) == IF ok THEN DeviceFirmware ELSE 0

\* fetchProfileData: the object it returns once its four reads have resolved
fetchProfileData(profile) ==
  [f \in {ProfileFields[i] : i \in 1..Len(ProfileFields)} |-> Full[f]]

\* exportConfig: "Include only valid data" (arrays are truthy)
includeValid(profileData) ==
  Restrict(profileData,
           {f \in DOMAIN profileData :
              f \in {"keymap", "advancedKeys", "tickRate"} \/ Truthy(profileData[f])})

\* a loop body that creates the profile's record before looking at the data
addProfileUnchecked(profiles, profile, profileData) ==
  Append(profiles,
         [key |-> NumToString(profile),
          data |-> IF profileData = Null THEN <<>> ELSE includeValid(profileData)])

\* exportConfig: `if (profileData) { profilesData[profileId] = {...} }`;
\* profileData is null when a read of the profile was rejected
addProfile(profiles, profile, profileData) ==
  IF profileData = Null THEN profiles
  ELSE Append(profiles,
              [key |-> NumToString(profile), data |-> includeValid(profileData)])

\* an export that insists on all the profiles
hasProfileDataAll(profiles) == Len(profiles) = LastProfile + 1

hasProfileData(profiles) ==
  Len(profiles) > 0 /\ \E i \in 1..Len(profiles) : DOMAIN profiles[i].data # {}

\* configFileSchema: the object shape holds by construction of the export;
\* the refinement asks for a profile key or a defined settings field
configFileSchema(data) ==
  \/ Has(data, "profiles") /\ Len(data.profiles) > 0
  \/ Has(data, "settings") /\ \E f \in SettingNames : Has(data.settings, f)

\* a document that always carries a calibration field
buildConfigFileDataWithCalibration(dev, fw, profiles, calibration) ==
  [version |-> "1.0", timestamp |-> "t",
   deviceInfo |-> [name |-> dev.name, firmwareVersion |-> NumToString(fw),
                   deviceId |-> "device-123"],
   profiles |-> profiles,
   settings |-> [calibration |-> calibration]]

buildConfigFileData(dev, fw, profiles, calibration) ==
  [version |-> "1.0", timestamp |-> "t",
   deviceInfo |-> [name |-> dev.name, firmwareVersion |-> NumToString(fw),
                   deviceId |-> "device-123"],
   profiles |-> profiles,
   settings |-> IF Truthy(calibration) THEN [calibration |-> calibration] ELSE <<>>]

\* exportConfig up to `await device.getProfile()`
ExportConfig ==
  /\ epc = "idle"
  /\ ~isExporting
  /\ exports < MaxExports
  /\ exports' = exports + 1
  /\ isExporting' = TRUE
  /\ epc' = "getProfile"
  /\ profileId' = 0
  /\ fetched' = 0
  /\ profilesData' = <<>>
  /\ firmwareVersion' = 0
  /\ calibrationData' = Undefined
  /\ configFileData' = Null
  /\ exportWarnings' = 0
  /\ exportErrors' = 0
  /\ exportResult' = "none"
  /\ UNCHANGED <<queueVars, docVars, device, importVars>>

\* device.getProfile() settles; getFirmwareVersion is called
ExportGetProfile(ok) ==
  /\ epc = "getProfile"
  /\ exportWarnings' = IF ok THEN exportWarnings ELSE exportWarnings + 1
  /\ epc' = "firmwareVersion"
  /\ UNCHANGED <<queueVars, docVars, device, importVars, isExporting, profileId, fetched, profilesData,
                 firmwareVersion, calibrationData, configFileData, exportErrors,
                 exportResult, exports>>

\* device.firmwareVersion() settles; the profile loop starts with the first
\* read of profile 0
ExportFirmwareVersion(ok) ==
  /\ epc = "firmwareVersion"
  /\ firmwareVersion' = getFirmwareVersion(ok)
  /\ epc' = "fetch"
  /\ profileId' = 0
  /\ fetched' = 0
  /\ UNCHANGED <<queueVars, docVars, device, importVars, isExporting, profilesData, calibrationData,
                 configFileData, exportWarnings, exportErrors, exportResult, exports>>

\* a read of fetchProfileData settles.  A rejected read is caught inside
\* fetchProfileData, which logs to the console and returns null: the
\* profile is left out and no toast is emitted.
FetchProfileData(ok) ==
  /\ epc = "fetch"
  /\ IF ok /\ fetched + 1 < Len(ProfileFields)
     THEN /\ fetched' = fetched + 1
          /\ UNCHANGED <<profileId, profilesData, epc>>
     ELSE /\ fetched' = 0
          /\ profilesData' =
               addProfile(profilesData, profileId,
                          IF ok THEN fetchProfileData(profileId) ELSE Null)
          /\ IF profileId < LastProfile
             THEN profileId' = profileId + 1 /\ UNCHANGED epc
             ELSE epc' = "getCalibration" /\ UNCHANGED profileId
  /\ UNCHANGED <<queueVars, docVars, device, importVars, isExporting, firmwareVersion, calibrationData,
                 configFileData, exportWarnings, exportErrors, exportResult, exports>>

\* device.getCalibration() settles; the document is built, validated and
\* handed to the download; the finally block clears isExporting
ExportGetCalibration(ok) ==
  /\ epc = "getCalibration"
  /\ calibrationData' = IF ok THEN 1 ELSE Undefined
  /\ LET warned == IF ok THEN exportWarnings ELSE exportWarnings + 1
         data == buildConfigFileData(device, firmwareVersion, profilesData,
                                     calibrationData')
     IN  /\ exportWarnings' = warned
         /\ IF ~hasProfileData(profilesData) /\ ~Truthy(calibrationData')
            THEN /\ exportErrors' = exportErrors + 1
                 /\ exportResult' = "false"
                 /\ configFileData' = Null
            ELSE IF ~configFileSchema(data)
            THEN /\ exportErrors' = exportErrors + 1
                 /\ exportResult' = "false"
                 /\ configFileData' = Null
            ELSE /\ exportErrors' = exportErrors
                 /\ exportResult' = "true"
                 /\ configFileData' = data
  /\ epc' = "idle"
  /\ isExporting' = FALSE
  /\ UNCHANGED <<queueVars, docVars, device, importVars, profileId, fetched, profilesData,
                 firmwareVersion, exports>>

Next ==
  \/ \E f \in Files : ImportConfig(f)
  \/ \E ok \in BOOLEAN : ReadFile(ok)
  \/ \E ok \in BOOLEAN : FirmwareVersion(ok)
  \/ \E ok \in BOOLEAN : GetProfile(ok)
  \/ \E ok \in BOOLEAN : DeviceWrite(ok)
  \/ Delay
  \/ \E sel \in Selections(currentConfigFile) : HandleCompatibilityContinue(sel)
  \/ HandleCompatibilityCancel
  \/ CancelImport

Spec == Init /\ [][Next]_vars

\* the import of two files of the test suite's shape: one that is applied
\* at once, one that pauses for review (its firmware is newer)
SessionFiles ==
  { File(1, TRUE, TRUE, Legacy(SameHeader, Restrict(Full, {"keymap", "tickRate"}))),
    File(1, TRUE, TRUE, Legacy(NewerFirmware, Restrict(Full, {"tickRate"}))) }

\* an awaited call settles: the file is read, the device answers or fails,
\* the timer of the pause fires
Settle ==
  \/ \E ok \in BOOLEAN : ReadFile(ok)
  \/ \E ok \in BOOLEAN : FirmwareVersion(ok)
  \/ \E ok \in BOOLEAN : GetProfile(ok)
  \/ \E ok \in BOOLEAN : DeviceWrite(ok)
  \/ Delay

LiveNext ==
  \/ \E f \in SessionFiles : ImportConfig(f)
  \/ Settle
  \/ \E sel \in Selections(currentConfigFile) : HandleCompatibilityContinue(sel)
  \/ HandleCompatibilityCancel
  \/ CancelImport

\* every awaited call settles in the end
LiveSpec == Init /\ [][LiveNext]_vars /\ WF_vars(Settle)

\* the export on its own
ExportNext ==
  \/ ExportConfig
  \/ \E ok \in BOOLEAN : ExportGetProfile(ok)
  \/ \E ok \in BOOLEAN : ExportFirmwareVersion(ok)
  \/ \E ok \in BOOLEAN : FetchProfileData(ok)
  \/ \E ok \in BOOLEAN : ExportGetCalibration(ok)

ExportSpec == Init /\ [][ExportNext]_vars

\* ImportButton and ExportButton on one page: each is disabled by the busy
\* flag of its own hook only, so an import and an export interleave freely
SessionNext ==
  \/ LiveNext
  \/ ExportNext

SessionSpec == Init /\ [][SessionNext]_vars

\* files that go beyond the five profile slots of the device: one with the
\* profile keys 0..5, one whose only profile key is not a number
ReviewFiles ==
  { File(1, TRUE, TRUE, Profiles(SameHeader, MaxProfileCount + 1, [tickRate |-> 1])),
    File(1, TRUE, TRUE,
         SameHeader @@ [profiles |-> <<[key |-> <<"x">>, data |-> [tickRate |-> 1]]>>]) }

\* handleCompatibilityContinue called while no document is pending: the
\* `if (currentConfigFile)` is skipped and the finally block runs
ContinueWithoutDocument ==
  /\ pc = "idle"
  /\ currentConfigFile = Null
  /\ caller' = "handleCompatibilityContinue"
  /\ showCompatibilityDialog' = finallyShowDialog("handleCompatibilityContinue",
                                                  showCompatibilityDialog)
  /\ isImporting' = finallyIsImporting(isImporting)
  /\ result' = "void"
  /\ UNCHANGED <<queueVars, docVars, exportVars, device, currentConfigFile, compatibilityIssues,
                 cancelImport, pc, file, configFile, issues, closureCancel, applyVars,
                 calls, errorToasts, warningToasts, writeWarnings, outcome, imports>>

ReviewNext ==
  \/ \E f \in ReviewFiles : ImportConfig(f)
  \/ Settle
  \/ \E sel \in Selections(currentConfigFile) : HandleCompatibilityContinue(sel)
  \/ ContinueWithoutDocument
  \/ HandleCompatibilityCancel
  \/ CancelImport

ReviewSpec == Init /\ [][ReviewNext]_vars

(***************************************************************************)
(* The functions of the two hooks applied to one document.  JSON text is   *)
(* kept as its syntax tree: a string literal, a number literal with its    *)
(* decimal digits, null, an array (a sequence) or an object (a record).    *)
(***************************************************************************)
RECURSIVE decimal(_)
decimal(n) ==
  IF n < 10 THEN <<Digits[n + 1]>> ELSE decimal(n \div 10) \o <<Digits[(n % 10) + 1]>>

jsonString(s) == [string |-> s]

\* a serializer that writes every number as null
jsonNumberAsNull(n) == [null |-> TRUE]

jsonNumber(n) == [number |-> decimal(n)]

\* a value typed z.any(): null, or some object
jsonOpaque(v) == IF Truthy(v) THEN [object |-> TRUE] ELSE [null |-> TRUE]

\* the members of a profile record or of the settings record
stringifyFields(obj) ==
  [f \in DOMAIN obj |->
     CASE f = "keymap" ->
            [l \in 1..Len(obj.keymap) |-> [i \in 1..obj.keymap[l] |-> jsonNumber(0)]]
       [] f = "advancedKeys" -> [i \in 1..obj.advancedKeys |-> [object |-> TRUE]]
       [] f = "tickRate" -> jsonNumber(obj.tickRate)
       [] OTHER -> jsonOpaque(obj[f])]

\* JSON.stringify(configFileData, null, 2)
stringify(d) ==
  [f \in DOMAIN d |->
     CASE f = "deviceInfo" ->
            [g \in DOMAIN d.deviceInfo |-> jsonString(d.deviceInfo[g])]
       [] f = "profiles" ->
            [i \in 1..Len(d.profiles) |->
               [key |-> d.profiles[i].key, data |-> stringifyFields(d.profiles[i].data)]]
       [] f = "settings" -> stringifyFields(d.settings)
       [] OTHER -> jsonString(d[f])]

\* profileDataSchema and settingsSchema: z.number() refuses null, z.any()
\* takes everything
fieldsMatch(t) ==
  /\ Has(t, "tickRate") => Has(t.tickRate, "number")
  /\ Has(t, "keymap") =>
       \A l \in 1..Len(t.keymap) : \A i \in 1..Len(t.keymap[l]) :
          Has(t.keymap[l][i], "number")

\* the object schemas keep the keys they declare and strip the others
parseFields(t, keys) ==
  [f \in DOMAIN t \cap keys |->
     CASE f = "keymap" -> [l \in 1..Len(t.keymap) |-> Len(t.keymap[l])]
       [] f = "advancedKeys" -> Len(t.advancedKeys)
       [] f = "tickRate" -> ParseDigits(t.tickRate.number, 1, 0)
       [] OTHER -> IF Has(t[f], "null") THEN 0 ELSE 1]

\* deviceInfoSchema: .transform((val) => String(val)) on a string or a number
firmwareVersionString(t) ==
  IF Has(t, "string") THEN t.string ELSE NumToString(ParseDigits(t.number, 1, 0))

shapeMatches(t) ==
  /\ Has(t, "version") /\ Has(t.version, "string")
  /\ Has(t, "timestamp") /\ Has(t.timestamp, "string")
  /\ Has(t, "deviceInfo")
  /\ Has(t.deviceInfo, "name") /\ Has(t.deviceInfo.name, "string")
  /\ Has(t.deviceInfo, "firmwareVersion")
  /\ (Has(t.deviceInfo.firmwareVersion, "string")
        \/ Has(t.deviceInfo.firmwareVersion, "number"))
  /\ Has(t.deviceInfo, "deviceId") /\ Has(t.deviceInfo.deviceId, "string")
  /\ Has(t, "profiles") =>
       \A i \in 1..Len(t.profiles) : fieldsMatch(t.profiles[i].data)
  /\ Has(t, "settings") => fieldsMatch(t.settings)

parseValue(t) ==
  [f \in DOMAIN t \cap {"version", "timestamp", "deviceInfo", "profiles", "settings"} |->
     CASE f = "deviceInfo" ->
            [name |-> t.deviceInfo.name.string,
             firmwareVersion |-> firmwareVersionString(t.deviceInfo.firmwareVersion),
             deviceId |-> t.deviceInfo.deviceId.string]
       [] f = "profiles" ->
            [i \in 1..Len(t.profiles) |->
               [key |-> t.profiles[i].key,
                data |-> parseFields(t.profiles[i].data,
                                     {ProfileFields[j] : j \in 1..Len(ProfileFields)})]]
       [] f = "settings" -> parseFields(t.settings, SettingNames)
       [] OTHER -> t[f].string]

\* validateConfigFile of the schema on JSON.parse(text): the parsed document,
\* or the Error it throws
configFileSchemaParse(t) ==
  IF shapeMatches(t) /\ configFileSchema(parseValue(t))
  THEN [ok |-> TRUE, value |-> parseValue(t)]
  ELSE [ok |-> FALSE]

LastLayerShort == [l \in 1..NumLayers |-> IF l = NumLayers THEN NumKeys - 1 ELSE NumKeys]

Profile(key, data) == [key |-> NumToString(key), data |-> data]

\* documents on top of those of the import files: versions "2.1.0" and "1",
\* profiles that differ from one another, documents the export builds
MoreConfigs ==
  { Legacy(Header("TestDevice", <<"2", ".", "1", ".", "0">>), [tickRate |-> 10]),
    Legacy(Header("TestDevice", <<"1">>), Restrict(Full, {"tickRate"})),
    OtherDevice @@ [profiles |-> <<Profile(0, [keymap |-> GoodKeymap]),
                                   Profile(1, [keymap |-> WideKeymap])>>],
    SameHeader @@ [profiles |-> <<Profile(0, [keymap |-> ShortKeymap]),
                                  Profile(1, [keymap |-> LastLayerShort, tickRate |-> 1]),
                                  Profile(2, [tickRate |-> 1])>>],
    Profiles(SameHeader, 1, [advancedKeys |-> NumAdvancedKeys + 1]),
    Profiles(OtherDevice, 1, [tickRate |-> 1]),
    buildConfigFileData(FullDevice, DeviceFirmware, <<>>, 1),
    buildConfigFileData(FullDevice, 0,
                        <<Profile(0, includeValid(fetchProfileData(0)))>>, Undefined) }

DocInputs == ValidConfigs \cup InvalidConfigs \cup MoreConfigs

\* device.firmwareVersion(): Promise<number>, resolved or rejected
FirmwareAnswers ==
  {[ok |-> FALSE]} \cup {[ok |-> TRUE, value |-> v] : v \in 1..DeviceFirmware}

DocInit ==
  /\ HooksIdle
  /\ QueueIdle
  /\ doc \in DocInputs
  /\ answer \in FirmwareAnswers
  /\ applied = {}
  /\ accepted = FALSE
  /\ docIssues = <<>>
  /\ text = Null
  /\ parsed = [ok |-> FALSE]

\* validateConfigFile of useImportConfig
ValidateConfigFile ==
  /\ doc # Null
  /\ "validate" \notin applied
  /\ accepted' = validateConfigFile(doc)
  /\ applied' = applied \cup {"validate"}
  /\ UNCHANGED <<queueVars, device, importVars, exportVars, doc, answer, docIssues, text, parsed>>

\* checkCompatibility, which importConfig calls on a validated document
CheckCompatibility ==
  /\ "validate" \in applied
  /\ accepted
  /\ "check" \notin applied
  /\ docIssues' = checkCompatibility(doc, device, answer)
  /\ applied' = applied \cup {"check"}
  /\ UNCHANGED <<queueVars, device, importVars, exportVars, doc, answer, accepted, text, parsed>>

Stringify ==
  /\ doc # Null
  /\ "stringify" \notin applied
  /\ text' = stringify(doc)
  /\ applied' = applied \cup {"stringify"}
  /\ UNCHANGED <<queueVars, device, importVars, exportVars, doc, answer, accepted, docIssues, parsed>>

Parse ==
  /\ "stringify" \in applied
  /\ "parse" \notin applied
  /\ parsed' = configFileSchemaParse(text)
  /\ applied' = applied \cup {"parse"}
  /\ UNCHANGED <<queueVars, device, importVars, exportVars, doc, answer, accepted, docIssues, text>>

DocNext ==
  \/ ValidateConfigFile
  \/ CheckCompatibility
  \/ Stringify
  \/ Parse

DocSpec == DocInit /\ [][DocNext]_vars

(***************************************************************************)
(* TaskQueue.  A task is known by its number in the order of the add and   *)
(* enqueue calls; promises[t] is the promise the call returned.  The       *)
(* wrapper pushed by add / enqueue settles that promise when the task      *)
(* settles and never rejects itself.                                       *)
(***************************************************************************)

\* a queue that starts a process loop at every call
startsProcessingAlways(processing, q) == Len(q) # 0

\* add / enqueue: `if (!this.isProcessing) this.process()`, and process:
\* `if (this.isProcessing || this.queue.length === 0) return`
startsProcessing(processing, q) == ~processing /\ ~(processing \/ Len(q) = 0)

\* add(task) and enqueue(task): push the wrapper; process() runs up to its
\* first await, which is inside the first task of the queue
Add(kind) ==
  /\ Len(promises) < MaxTasks
  /\ promises' = Append(promises, "pending")
  /\ LET q == Append(queue, Len(promises) + 1)
     IN  IF startsProcessing(isProcessing, q)
         THEN /\ isProcessing' = TRUE
              /\ queue' = Tail(q)
              /\ executing' = executing \cup {Head(q)}
         ELSE /\ queue' = q
              /\ UNCHANGED <<isProcessing, executing>>
  /\ UNCHANGED <<device, importVars, exportVars, docVars>>

\* the task settles: the wrapper resolves or rejects the promise and returns
TaskSettles(ok) ==
  /\ \E t \in executing :
        /\ promises' = [promises EXCEPT ![t] = IF ok THEN "resolved" ELSE "rejected"]
        /\ executing' = executing \ {t}
  /\ UNCHANGED <<device, importVars, exportVars, docVars, queue, isProcessing>>

\* process resumes after `await task()`: the next task, or the end of the loop
ProcessNext ==
  /\ isProcessing
  /\ executing = {}
  /\ IF Len(queue) > 0
     THEN /\ queue' = Tail(queue)
          /\ executing' = {Head(queue)}
          /\ UNCHANGED isProcessing
     ELSE /\ isProcessing' = FALSE
          /\ UNCHANGED <<queue, executing>>
  /\ UNCHANGED <<device, importVars, exportVars, docVars, promises>>

\* clear(): `this.queue = []`
Clear ==
  /\ Len(queue) > 0
  /\ queue' = <<>>
  /\ UNCHANGED <<device, importVars, exportVars, docVars, isProcessing, executing,
                 promises>>

Progress ==
  \/ \E ok \in BOOLEAN : TaskSettles(ok)
  \/ ProcessNext

QueueNext ==
  \/ \E kind \in {"add", "enqueue"} : Add(kind)
  \/ Progress
  \/ Clear

\* every task terminates, and the continuation of the loop is run
QueueSpec == Init /\ [][QueueNext]_vars /\ WF_vars(Progress)

(***************************************************************************)
(* Properties.                                                             *)
(***************************************************************************)
isWrite(c) == c.op \in WriteOps
writesOf(cl) == SelectSeq(cl, isWrite)
writeSet(cl) == {cl[i] : i \in {j \in 1..Len(cl) : isWrite(cl[j])}}
fwOutcomes == {[ok |-> TRUE, value |-> DeviceFirmware], [ok |-> FALSE]}

\* C1: a document whose compatibility analysis has an error-severity issue
\* is never applied: no apply runs on it and no device write is issued for
\* it, whatever continue and cancel requests follow.
C1_NoApplyOnError ==
  (configFile # Null
     /\ \E fw \in fwOutcomes : hasErrors(checkCompatibility(configFile, device, fw)))
    => (pc \notin ApplyPcs /\ writeSet(calls) = {})

C1_Witness ==
  /\ outcome = "Review"
  /\ hasErrors(compatibilityIssues)
  /\ dialogOpen
  /\ currentConfigFile = configFile
  /\ imports = MaxImports

\* C2: once the cancel signal is raised while the profiles of a document
\* with three or more profiles are being applied, no write for a later profile (and no global write) is
\* issued, and apply ends as Cancelled.
C2_CancelStopsLaterProfiles ==
  [][(pc = "write" /\ cancelImport /\ Has(configFile, "profiles")
        /\ Len(configFile.profiles) >= 3
        /\ selectedSettings[unit] = "profiles")
       => /\ Len(calls') > Len(calls)
              => /\ calls'[Len(calls')].op # "setCalibration"
                 /\ calls'[Len(calls')].profile = calls[Len(calls)].profile
          /\ pc' = "idle" => outcome' = "Cancelled"]_vars

\* the writes a document and a selection call for
expectedOf(obj, profile) ==
  (IF Has(obj, "keymap")
   THEN {Write("setKeymap", profile, l - 1, obj.keymap[l]) : l \in 1..Len(obj.keymap)}
   ELSE {})
    \cup (IF Has(obj, "actuationMap") /\ obj.actuationMap # 0
          THEN {Write("setActuationMap", profile, 0, 0)} ELSE {})
    \cup (IF Has(obj, "advancedKeys")
          THEN {Write("setAdvancedKeys", profile, 0, obj.advancedKeys)} ELSE {})
    \cup (IF Has(obj, "tickRate") THEN {Write("setTickRate", profile, 0, 0)} ELSE {})

expectedWrites(cfg, sel, profile) ==
  LET chosen == {sel[i] : i \in 1..Len(sel)}
      cal == IF Has(cfg, "settings") /\ Has(cfg.settings, "calibration")
                  /\ cfg.settings.calibration # 0
             THEN {Write("setCalibration", 0, 0, 0)} ELSE {}
  IN  IF Has(cfg, "profiles")
      THEN (IF "profiles" \in chosen
            THEN UNION {expectedOf(cfg.profiles[i].data, parseInt(cfg.profiles[i].key)) :
                          i \in 1..Len(cfg.profiles)} \cup cal
            ELSE {})
             \cup (IF "calibration" \in chosen THEN cal ELSE {})
      ELSE {w \in expectedOf(cfg.settings, profile) :
              \/ w.op = "setKeymap" /\ "keymap" \in chosen
              \/ w.op = "setActuationMap" /\ "actuationMap" \in chosen
              \/ w.op = "setAdvancedKeys" /\ "advancedKeys" \in chosen
              \/ w.op = "setTickRate" /\ "tickRate" \in chosen}
             \cup (IF "calibration" \in chosen THEN cal ELSE {})

\* C3: whatever writes fail, an apply that is not cancelled issues every
\* write its document and selection call for.
C3_FailuresSkipNothing ==
  (pc = "idle" /\ outcome = "Completed")
    => writeSet(calls) = expectedWrites(configFile, selectedSettings, currentProfile)

C3_Witness ==
  /\ pc = "idle"
  /\ outcome = "Completed"
  /\ Has(configFile, "profiles")
  /\ Len(writesOf(calls)) >= 2 * DocProfiles
  /\ warningToasts = Len(writesOf(calls))

\* the setting of the selection a write belongs to
settingOf(cfg, w) ==
  IF w.op = "setCalibration" THEN "calibration"
  ELSE IF Has(cfg, "profiles") THEN "profiles"
  ELSE CASE w.op = "setKeymap" -> "keymap"
         [] w.op = "setActuationMap" -> "actuationMap"
         [] w.op = "setAdvancedKeys" -> "advancedKeys"
         [] w.op = "setTickRate" -> "tickRate"

\* C4: only selected settings are written to the device.
C4_OnlySelectedWritten ==
  \A w \in writeSet(calls) :
    \E i \in 1..Len(selectedSettings) : selectedSettings[i] = settingOf(configFile, w)

\* C5: a keymap written to the device has the device's number of layers, and
\* each written layer the device's number of keys.
C5_KeymapFitsDevice ==
  /\ \A w \in writeSet(calls) :
       w.op = "setKeymap" => (w.keys = NumKeys /\ w.layer < NumLayers)
  /\ (pc = "idle" /\ outcome = "Completed")
       => \A w \in writeSet(calls) :
            w.op = "setKeymap"
              => \A l \in 0..(NumLayers - 1) :
                   Write("setKeymap", w.profile, l, NumKeys) \in writeSet(calls)

sessionCells == <<currentConfigFile, compatibilityIssues, showCompatibilityDialog>>

\* C6: an import whose analysis finds no issue goes straight to apply with
\* every available setting selected, leaves the review dialog alone, and
\* returns what apply returns.
C6_State ==
  (caller = "importConfig" /\ configFile # Null /\ issues = <<>>
     /\ pc \in ApplyPcs \cup {"idle"})
    => /\ {selectedSettings[i] : i \in 1..Len(selectedSettings)}
            = IF Has(configFile, "profiles")
              THEN {"profiles"} \cup
                   (IF Has(configFile, "settings") /\ Has(configFile.settings, "calibration")
                         /\ configFile.settings.calibration # 0
                    THEN {"calibration"} ELSE {})
              ELSE SettingNames \cap DOMAIN configFile.settings
       /\ Len(selectedSettings) = Cardinality({selectedSettings[i] : i \in 1..Len(selectedSettings)})
       /\ pc = "idle"
            => /\ outcome \in {"Completed", "Cancelled"}
               /\ result = IF outcome = "Completed" /\ completedSteps > 0
                           THEN "true" ELSE "false"

C6_Step ==
  (pc = "firmwareVersion" /\ pc' # "firmwareVersion" /\ issues' = <<>>)
    => (pc' = "getProfile" /\ UNCHANGED sessionCells /\ writeSet(calls') = {})

C6_AutoApply == []C6_State /\ [][C6_Step]_vars

C6_Witness ==
  /\ caller = "importConfig"
  /\ pc = "idle"
  /\ outcome = "Completed"
  /\ result = "true"
  /\ issues = <<>>
  /\ selectedSettings = <<"profiles", "calibration">>

\* C7: an import whose analysis finds issues stops for review: document and
\* issue list stored, dialog shown, TRUE returned, and no device write of
\* the import is issued; only an import without issues applies by itself.
C7_ReviewGate ==
  /\ outcome = "Review"
       => /\ pc = "idle"
          /\ ~isImporting
          /\ result = "true"
          /\ Len(issues) > 0
          /\ currentConfigFile = configFile
          /\ compatibilityIssues = issues
          /\ \E fw \in fwOutcomes :
               compatibilityIssues = checkCompatibility(configFile, device, fw)
          /\ showCompatibilityDialog
          /\ writeSet(calls) = {}
  /\ (caller = "importConfig" /\ (pc \in ApplyPcs \/ writeSet(calls) # {}))
       => issues = <<>>

C7_Witness ==
  /\ outcome = "Review"
  /\ ~hasErrors(compatibilityIssues)
  /\ Len(compatibilityIssues) >= 2
  /\ dialogOpen

\* the input errors of a file, as the import contract lists them
inputError(f) ==
  \/ f.size > 5 * 1024 * 1024
  \/ ~f.json
  \/ ~f.wellFormed
  \/ ~validateConfigFile(f.config)

\* C8: the import of a file with an input error returns FALSE, calls the
\* device neither to read nor to write, and stores no document, no issue
\* list and no dialog.
C8_State ==
  (caller = "importConfig" /\ inputError(file))
    => /\ pc \in {"readFile", "idle"}
       /\ calls = <<>>
       /\ pc = "idle"
            => /\ result = "false"
               /\ ~isImporting
               /\ errorToasts >= 1
               /\ imports = 1 => (currentConfigFile = Null /\ compatibilityIssues = <<>>
                                    /\ ~showCompatibilityDialog)

C8_Step ==
  (caller' = "importConfig" /\ outcome' = "Rejected" /\ outcome # "Rejected")
    => UNCHANGED sessionCells

C8_InputErrorAborts == []C8_State /\ [][C8_Step]_vars

C8_Witness ==
  /\ caller = "importConfig"
  /\ outcome = "Rejected"
  /\ file.size > 5 * 1024 * 1024
  /\ imports = MaxImports
  /\ dialogOpen

\* C9: an import rejected for an input error emits exactly one error event.
C9_OneErrorEvent ==
  (caller = "importConfig" /\ outcome = "Rejected") => errorToasts = 1

\* C10: whenever the session is idle (no handler running, no dialog shown)
\* no document and no issue list of an earlier import is kept.
C10_IdleHoldsNothing ==
  (pc = "idle" /\ ~isImporting /\ ~showCompatibilityDialog)
    => (currentConfigFile = Null /\ compatibilityIssues = <<>>)

\* device calls that are awaited and have not settled
DevicePcs == {"firmwareVersion", "getProfile", "write"}
outstanding ==
  (IF pc \in DevicePcs THEN 1 ELSE 0) + (IF epc # "idle" THEN 1 ELSE 0)

\* C11: at most one read or write to the device is outstanding, whatever
\* the interleaving of import, review-continue, cancel and export.
C11_DeviceSerialized == outstanding <= 1

\* the fields of the profile being read that have been read so far
fetchedFields == {ProfileFields[i] : i \in 1..fetched}

\* C20: in export, when the read of one field of a profile fails, the
\* profile is still exported with every field that was read, a warning is
\* reported, and the export goes on.
C20_Step ==
  (epc = "fetch" /\ (epc' # "fetch" \/ profileId' # profileId))
    => /\ fetchedFields # {}
            => \E i \in 1..Len(profilesData') :
                 /\ profilesData'[i].key = NumToString(profileId)
                 /\ fetchedFields \subseteq DOMAIN profilesData'[i].data
       /\ Len(profilesData') = Len(profilesData) => exportWarnings' > exportWarnings
       /\ epc' \in {"fetch", "getCalibration"}

C20_FieldFailureOmitsOnlyField == [][C20_Step]_vars

\* C12: during apply the progress counter starts at 0, never decreases,
\* grows by exactly one when a unit has been attempted, whether or not its
\* writes succeeded, and stays within 0..total.
C12_State ==
  /\ completedSteps \in 0..totalSteps(selectedSettings)
  /\ pc = "getProfile" => completedSteps = 0
  /\ pc = "write" => completedSteps = unit - 1
  /\ pc = "delay" => completedSteps = unit

C12_Step ==
  pc \in ApplyPcs
    => completedSteps' - completedSteps
         = IF pc' = "delay" /\ (pc # "delay" \/ unit' # unit) THEN 1 ELSE 0

C12_ProgressMonotonic == []C12_State /\ [][C12_Step]_vars

C12_Witness ==
  /\ pc = "delay"
  /\ completedSteps = 2
  /\ completedSteps < totalSteps(selectedSettings)
  /\ Len(writesOf(calls)) >= 2
  /\ warningToasts = Len(writesOf(calls))

\* the number of apply-units of a document and a selection, one per profile
expectedTotal(cfg, sel) ==
  LET chosen == {sel[i] : i \in 1..Len(sel)}
  IN  IF Has(cfg, "profiles")
      THEN (IF "profiles" \in chosen THEN Len(cfg.profiles) ELSE 0)
             + (IF "calibration" \in chosen THEN 1 ELSE 0)
      ELSE Len(sel)

\* C13: a multi-profile document is applied as one unit per profile (plus
\* the selected global settings): total counts them and completed advances
\* once per profile; a legacy document as one unit per selected field,
\* written to the resolved current profile.
C13_UnitPerProfile ==
  /\ pc \in ApplyPcs
       => totalSteps(selectedSettings) = expectedTotal(configFile, selectedSettings)
  /\ (pc = "idle" /\ outcome = "Completed")
       => completedSteps = expectedTotal(configFile, selectedSettings)
  /\ (pc \in ApplyPcs /\ ~Has(configFile, "profiles"))
       => \A w \in writeSet(calls) :
            w.op # "setCalibration" => w.profile = currentProfile

\* C14: with keymap and tick rate selected, setTickRate failing and every
\* other device call succeeding, apply ends Completed with at least one
\* unit counted and exactly one warning.
C14_TickRateFailureTolerated ==
  (pc = "idle" /\ configFile # Null /\ ~Has(configFile, "profiles")
     /\ selectedSettings = <<"keymap", "tickRate">>
     /\ currentProfile = DeviceProfile
     /\ writeWarnings = {"setTickRate"})
    => /\ outcome = "Completed"
       /\ completedSteps >= 1
       /\ warningToasts = 1
       /\ caller = "importConfig" => result = "true"

C14_Witness ==
  /\ pc = "idle"
  /\ ~Has(configFile, "profiles")
  /\ selectedSettings = <<"keymap", "tickRate">>
  /\ currentProfile = DeviceProfile
  /\ writeWarnings = {"setTickRate"}
  /\ Len(writesOf(calls)) = NumLayers + 1

\* rejected writes of the apply that ran last
failedWrites == warningToasts - (IF currentProfile = DeviceProfile THEN 0 ELSE 1)

\* C15: an apply whose every device write failed counts no unit and does
\* not report success.
C15_AllFailedIsFailure ==
  (pc = "idle" /\ outcome = "Completed" /\ writeSet(calls) # {}
     /\ failedWrites = Len(writesOf(calls)))
    => (completedSteps = 0 /\ result # "true")

\* C16: a legacy document is written to the profile getProfile returns; when
\* getProfile fails one warning is emitted, every write goes to profile 0
\* and the apply goes on.
C16_State ==
  (pc \in ApplyPcs \cup {"idle"} /\ configFile # Null /\ ~Has(configFile, "profiles"))
    => /\ \A w \in writeSet(calls) :
            w.op # "setCalibration" => w.profile = currentProfile
       /\ writeSet(calls) # {} => (errorToasts = 0 /\ outcome \in {"none", "Completed"})

C16_Step ==
  (pc = "getProfile" /\ pc' # "getProfile")
    => /\ \/ currentProfile' = DeviceProfile /\ warningToasts' = warningToasts
          \/ currentProfile' = 0 /\ warningToasts' = warningToasts + 1
       /\ pc' \in ApplyPcs \/ (pc' = "idle" /\ outcome' \in {"Completed", "Cancelled"})
       /\ errorToasts' = 0

C16_LegacyTargetsCurrentProfile == []C16_State /\ [][C16_Step]_vars

C16_Witness ==
  /\ pc = "idle"
  /\ outcome = "Completed"
  /\ ~Has(configFile, "profiles")
  /\ currentProfile = 0
  /\ warningToasts = 1
  /\ Len(writesOf(calls)) >= 3
  /\ result = "true"

\* C17: an import or apply that has started ends: the handler returns with
\* one outcome (rejected, paused for review, completed or cancelled), and
\* whenever no handler is running isImporting is false.
C17_ImportEnds ==
  /\ [](pc = "idle" => ~isImporting)
  /\ []((pc = "idle" /\ caller # "none")
          => outcome \in {"Rejected", "Review", "Completed", "Cancelled"})
  /\ (pc # "idle") ~> (pc = "idle")

C17_Witness ==
  /\ pc = "idle"
  /\ ~isImporting
  /\ outcome = "Completed"
  /\ caller = "handleCompatibilityContinue"
  /\ imports = MaxImports

\* C18: cancelling a review closes the dialog, clears the pending document
\* and the issue list and issues no device call; the cancel flag is raised
\* by it if and only if an apply had already started.
C18_Step ==
  (currentConfigFile # Null /\ currentConfigFile' = Null)
    => /\ ~showCompatibilityDialog'
       /\ compatibilityIssues' = <<>>
       /\ calls' = calls
       /\ pc' = pc
       /\ pc \in ApplyPcs => cancelImport'
       /\ pc \notin ApplyPcs => cancelImport' = cancelImport

C18_ReviewCancel == [][C18_Step]_vars

\* C19: an apply that sees the cancel flag set issues no device write and
\* ends as Cancelled; a cancel request leaves the write in flight alone.
C19_State ==
  (closureCancel /\ caller \in {"importConfig", "handleCompatibilityContinue"})
    => /\ writeSet(calls) = {}
       /\ pc \notin {"write", "delay"}
       /\ outcome # "Completed"
       /\ (pc = "idle" /\ selectedSettings # <<>>) => outcome = "Cancelled"

C19_Step ==
  (pc = "write" /\ cancelImport' /\ ~cancelImport)
    => (pc' = "write" /\ calls' = calls /\ k' = k)

C21_State ==
  /\ \A i \in 1..Len(profilesData) : DOMAIN profilesData[i].data # {}
  /\ configFileData # Null
       => \A i \in 1..Len(configFileData.profiles) :
            DOMAIN configFileData.profiles[i].data # {}

C21_Step ==
  (epc = "fetch" /\ (epc' # "fetch" \/ profileId' # profileId))
    => /\ fetched = 0
            => (profilesData' = profilesData
                  /\ \A i \in 1..Len(profilesData') :
                       profilesData'[i].key # NumToString(profileId))
       /\ Len(profilesData') > Len(profilesData)
            => profilesData'
                 = Append(profilesData,
                          [key |-> NumToString(profileId),
                           data |-> [f \in {"keymap", "actuationMap", "advancedKeys",
                                            "tickRate"} |-> Full[f]]])

C21_FailedProfileAbsent == []C21_State /\ [][C21_Step]_vars

C21_Witness ==
  /\ exportResult = "true"
  /\ Len(configFileData.profiles) = 2
  /\ configFileData.profiles[1].key = <<"1">>
  /\ configFileData.profiles[2].key = <<"3">>

\* C22: when the firmware version cannot be read the export still succeeds
\* and the document's firmware version is the string "unknown".
C22_UnknownFirmware ==
  (exportResult = "true" /\ firmwareVersion = 0)
    => configFileData.deviceInfo.firmwareVersion
         = <<"u", "n", "k", "n", "o", "w", "n">>

\* C23: when getCalibration fails and a profile with a populated field was
\* read, the export succeeds with a document the schema accepts and that
\* has no calibration.
C23_CalibrationFailureTolerated ==
  (epc = "idle" /\ exportResult # "none" /\ calibrationData = Undefined
     /\ hasProfileData(profilesData))
    => /\ exportResult = "true"
       /\ exportErrors = 0
       /\ configFileData # Null
       /\ configFileSchema(configFileData)
       /\ ~Has(configFileData.settings, "calibration")
       /\ configFileData.profiles = profilesData

C23_Witness ==
  /\ exportResult = "true"
  /\ calibrationData = Undefined
  /\ Len(profilesData) = 1
  /\ exportWarnings >= 1

\* C24: the export fails, with one error and no document, exactly when no
\* profile with a populated field and no calibration could be read.
C24_FailsOnlyWhenEmpty ==
  (epc = "idle" /\ exportResult # "none")
    => /\ exportResult = "false"
            <=> (\A i \in 1..Len(profilesData) : DOMAIN profilesData[i].data = {})
                  /\ calibrationData = Undefined
       /\ exportResult = "false" => (exportErrors = 1 /\ configFileData = Null)
       /\ exportResult = "true" => (exportErrors = 0 /\ configFileData # Null)

C24_Witness ==
  /\ exportResult = "false"
  /\ exportErrors = 1
  /\ profilesData = <<>>
  /\ epc = "idle"

\* C25: round trip.  For every valid configuration document d, legacy or
\* multi-profile, whose firmwareVersion is a string, parsing the
\* serialization of d succeeds and yields a document equal to d.
C25_RoundTrip ==
  ("parse" \in applied /\ headerValid(doc) /\ configFileSchema(doc))
    => parsed = [ok |-> TRUE, value |-> doc]

C25_Witness ==
  /\ "parse" \in applied
  /\ Has(doc, "profiles") /\ Len(doc.profiles) > 1
  /\ Has(doc.profiles[1].data, "keymap") /\ Has(doc.profiles[1].data, "tickRate")
  /\ text.profiles[1].data.tickRate = [number |-> <<"1">>]
  /\ parsed.ok /\ parsed.value = doc

\* a document with no non-empty profile and no populated settings field
emptyDocument(d) ==
  /\ Has(d, "profiles") => \A i \in 1..Len(d.profiles) : DOMAIN d.profiles[i].data = {}
  /\ Has(d, "settings") => DOMAIN d.settings = {}

\* C26: a document that contains no non-empty profile and no populated
\* settings field is rejected by the parser, be it the validator of the
\* import or the schema; in particular a document whose only profiles are
\* empty records is rejected.
C26_EmptyRejected ==
  emptyDocument(doc) =>
    /\ "validate" \in applied => ~accepted
    /\ "parse" \in applied => ~parsed.ok

\* the validator of the import, taken alone, rejects every such document
C26_ImportRejectsEmpty ==
  (emptyDocument(doc) /\ "validate" \in applied) => ~accepted

issueCount(is, t, sv) ==
  Cardinality({i \in 1..Len(is) : is[i].type = t /\ is[i].severity = sv})

\* the records of a document that hold per-profile settings: the profiles,
\* or the settings of a legacy document
profileRecords(d) ==
  IF Has(d, "profiles") THEN {d.profiles[i].data : i \in 1..Len(d.profiles)}
  ELSE {d.settings}

namesDiffer == doc.deviceInfo.name # device.name

firstLayerTooWide ==
  \E obj \in profileRecords(doc) :
     Has(obj, "keymap") /\ Len(obj.keymap) > 0 /\ obj.keymap[1] > NumKeys

\* C27: the analysis holds one device/warning exactly when the document's
\* device name differs from the connected device's, one device/error exactly
\* when in addition the first keymap layer of some profile has more keys
\* than the device, and no device issue when the names are equal.
C27_DeviceIdentity ==
  "check" \in applied =>
    /\ issueCount(docIssues, "device", "warning") = (IF namesDiffer THEN 1 ELSE 0)
    /\ issueCount(docIssues, "device", "error")
         = (IF namesDiffer /\ firstLayerTooWide THEN 1 ELSE 0)
    /\ ~namesDiffer => \A i \in 1..Len(docIssues) : docIssues[i].type # "device"

C27_Witness ==
  /\ "check" \in applied
  /\ namesDiffer
  /\ Has(doc, "profiles")
  /\ ~(Has(doc.profiles[1].data, "keymap") /\ doc.profiles[1].data.keymap[1] > NumKeys)
  /\ firstLayerTooWide
  /\ issueCount(docIssues, "device", "error") = 1

\* the major component of a dotted version, or the whole of a bare one
majorComponent(s) ==
  LET dots == {i \in 1..Len(s) : s[i] = "."}
  IN  IF dots = {} THEN s
      ELSE SubSeq(s, 1, (CHOOSE i \in dots : \A j \in dots : i <= j) - 1)

isInteger(s) == Len(s) > 0 /\ \A i \in 1..Len(s) : IsDigit(s[i])

documentVersion == majorComponent(doc.deviceInfo.firmwareVersion)

profileSeq(d) ==
  IF Has(d, "profiles") THEN [i \in 1..Len(d.profiles) |-> d.profiles[i].data]
  ELSE <<d.settings>>

\* a keymap that is not NumLayers layers of NumKeys keys
keymapMismatch(km) == Len(km) # NumLayers \/ \E l \in 1..Len(km) : km[l] # NumKeys

keymapErrors(is) ==
  Cardinality({i \in 1..Len(is) :
                 /\ is[i].type = "settings" /\ is[i].severity = "error"
                 /\ is[i].message \in {"layerCount", "keyCount"}})

\* C29: for every profile of the document that has a keymap the analysis
\* holds exactly one settings/error if the keymap's layer count differs from
\* the device's or, the layer counts being equal, some layer's key count
\* differs from the device's, and none for that keymap otherwise.
C29_KeymapShape ==
  "check" \in applied =>
    keymapErrors(docIssues)
      = Cardinality({i \in 1..Len(profileSeq(doc)) :
                       /\ Has(profileSeq(doc)[i], "keymap")
                       /\ keymapMismatch(profileSeq(doc)[i].keymap)})

\* the same, for a device whose metadata carries numLayers
C29_KeymapShapeWithNumLayers == Truthy(device.numLayers) => C29_KeymapShape

\* C30: an advanced-key table with more entries than the device has slots is
\* only warned about, and the entries in excess are dropped when it is
\* applied: no setAdvancedKeys call carries more than numAdvancedKeys entries.
C30_NoExcessAdvancedKeys ==
  \A i \in 1..Len(calls) :
     calls[i].op = "setAdvancedKeys" => calls[i].keys <= NumAdvancedKeys

\* the analysis of such a table holds a settings/warning and no error for it
C30_ExcessIsWarning ==
  ("check" \in applied /\ Truthy(device.numAdvancedKeys)
     /\ \E i \in 1..Len(profileSeq(doc)) :
           /\ Has(profileSeq(doc)[i], "advancedKeys")
           /\ profileSeq(doc)[i].advancedKeys > NumAdvancedKeys)
    => \E i \in 1..Len(docIssues) :
          docIssues[i] = Issue("settings", "warning", "advancedKeys")

profileCountIssues(is) ==
  {i \in 1..Len(is) : is[i] = Issue("settings", "warning", "profileCount")}

manyProfiles(d) == d # Null /\ Has(d, "profiles") /\ Len(d.profiles) > 5

\* C31: a document with more than five profile keys gets exactly one
\* settings/warning about the profile count, and that issue does not block
\* the apply: the import pauses for review, and the review can be continued.
C31_State ==
  /\ (manyProfiles(configFile) /\ pc \notin {"readFile", "firmwareVersion"}
        /\ caller = "importConfig")
       => /\ Cardinality(profileCountIssues(issues)) = 1
          /\ pc = "idle"
          /\ outcome \in {"Review", "Cancelled"}
  /\ (dialogOpen /\ manyProfiles(currentConfigFile))
       => /\ Cardinality(profileCountIssues(compatibilityIssues)) = 1
          /\ ~hasErrors(compatibilityIssues)
          /\ continueEnabled(compatibilityIssues, <<"profiles">>, isImporting)
               = ~isImporting

C31_Step ==
  (dialogOpen /\ manyProfiles(currentConfigFile) /\ pc = "idle" /\ ~isImporting
     /\ caller' = "handleCompatibilityContinue" /\ pc' # "idle")
    => /\ pc' = "getProfile"
       /\ configFile' = currentConfigFile

C31_ProfileCountWarning == []C31_State /\ [][C31_Step]_vars

C31_Witness ==
  /\ caller = "handleCompatibilityContinue"
  /\ manyProfiles(configFile)
  /\ pc = "write"
  /\ Len(calls) > 1

notFirmware(issue) == issue.type # "firmware"

\* C32: the analyzer does not throw on a validated document; when the
\* firmware query fails the failure becomes one warning-severity issue, the
\* other checks run as they do when the query is answered, and the list is
\* returned.
C32_AnalyzerNeverThrows ==
  /\ ("validate" \in applied /\ accepted) => ~checkThrows(doc)
  /\ "check" \in applied =>
       /\ \A i \in 1..Len(docIssues) :
             /\ docIssues[i].type \in {"device", "firmware", "settings"}
             /\ docIssues[i].severity \in {"warning", "error"}
       /\ ~answer.ok =>
            /\ issueCount(docIssues, "firmware", "warning") = 1
            /\ issueCount(docIssues, "firmware", "error") = 0
            /\ SelectSeq(docIssues, notFirmware)
                 = SelectSeq(checkCompatibility(doc, device,
                                                [ok |-> TRUE, value |-> DeviceFirmware]),
                             notFirmware)

C32_Witness ==
  /\ "check" \in applied
  /\ ~answer.ok
  /\ issueCount(docIssues, "firmware", "warning") = 1
  /\ issueCount(docIssues, "settings", "error") = 1
  /\ issueCount(docIssues, "device", "warning") = 0

\* C33: once handleCompatibilityContinue has returned, whether its apply
\* completed, was cancelled, had its writes fail, or there was no pending
\* document, the dialog is closed and isImporting is false.
C33_ContinueClosesDialog ==
  (caller = "handleCompatibilityContinue" /\ pc = "idle")
    => (~showCompatibilityDialog /\ ~isImporting)

C33_Witness ==
  /\ caller = "handleCompatibilityContinue"
  /\ pc = "idle"
  /\ outcome = "Completed"
  /\ currentConfigFile # Null
  /\ writeWarnings # {}

\* C34: every setKeymap, setActuationMap, setAdvancedKeys and setTickRate
\* call of an apply targets one of the profile slots 0..4 of the device,
\* for documents with more than five profile keys or with profile keys that
\* are not numbers too.
C34_WritesWithinProfileSlots ==
  \A i \in 1..Len(calls) :
     calls[i].op \in {"setKeymap", "setActuationMap", "setAdvancedKeys", "setTickRate"}
       => calls[i].profile \in 0..4

\* a profile key that is not a number leads to no device write at all
C34_NonNumericKeyWritesNothing ==
  (configFile # Null /\ Has(configFile, "profiles")
     /\ \E i \in 1..Len(configFile.profiles) : ~isInteger(configFile.profiles[i].key))
    => writeSet(calls) = {}

\* the document an import reads back from the file the export has written
reimported == parseValue(stringify(configFileData))

\* C35: every file exportConfig produces with success, the one with no
\* profile and a calibration included, is accepted by the validation of
\* importConfig.
C35_ExportedFileImports ==
  (exportResult = "true" /\ configFileData # Null) => validateConfigFile(reimported)

\* an exported file that holds a profile is accepted
C35_ExportWithProfileImports ==
  (exportResult = "true" /\ configFileData # Null /\ Len(configFileData.profiles) > 0)
    => validateConfigFile(reimported)

\* what a device write sets: the call, the profile and the keymap layer
subject(c) == <<c.op, c.profile, c.layer>>

\* C36: within one apply run no setting is written twice: no two device
\* writes of the run have the same subject, whatever the selection.
C36_WrittenAtMostOnce ==
  \A i, j \in 1..Len(calls) :
     (i < j /\ isWrite(calls[i]) /\ isWrite(calls[j]))
       => subject(calls[i]) # subject(calls[j])

\* the same for the settings of the profiles alone
C36_ProfileFieldsWrittenOnce ==
  \A i, j \in 1..Len(calls) :
     (i < j /\ isWrite(calls[i]) /\ isWrite(calls[j]) /\ calls[i].op # "setCalibration")
       => subject(calls[i]) # subject(calls[j])

\* an apply that importConfig started has been ended as Cancelled before
\* its first write, by a flag that was already up when importConfig was
\* called (the closure of a handler holds the flag as it was at the call)
cancelledByEarlierRequest ==
  /\ caller = "importConfig" /\ closureCancel
  /\ pc = "idle" /\ outcome = "Cancelled" /\ result = "false"
  /\ configFile # Null /\ issues = <<>> /\ writeSet(calls) = {}

\* C37: a cancel request affects only the import during which it was
\* raised: when no handler is running the cancel flag is clear, and a later
\* import for which no cancel was requested is not ended as Cancelled.
C37_CancelDoesNotLeak ==
  /\ pc = "idle" => ~cancelImport
  /\ ~cancelledByEarlierRequest

\* the second half on its own
C37_LaterImportNotCancelled == ~cancelledByEarlierRequest

queued == {queue[i] : i \in 1..Len(queue)}

\* tasks that clear() has removed: not settled, not running, not waiting
dropped ==
  {t \in 1..Len(promises) : promises[t] = "pending" /\ t \notin executing /\ t \notin queued}

\* C39: the queue runs its tasks one at a time and in the order of the
\* calls: at most one task is executing, the waiting tasks are in the order
\* they were added and were all added after the one executing, no task is
\* executing while an earlier one (that was not cleared) has not finished,
\* and waiting tasks always have a process loop that will reach them, also
\* after a task has failed.
C39_OneAtATimeInOrder ==
  /\ Cardinality(executing) <= 1
  /\ \A i, j \in 1..Len(queue) : i < j => queue[i] < queue[j]
  /\ \A t \in executing : \A u \in queued : t < u
  /\ \A t \in executing : \A u \in 1..(t - 1) :
        promises[u] # "pending" \/ u \in dropped
  /\ Len(queue) > 0 => isProcessing
  /\ executing # {} => isProcessing

C39_Witness ==
  /\ Len(promises) >= 3
  /\ promises[1] = "rejected"
  /\ executing = {2}
  /\ queue = <<3>>
  /\ dropped = {}

\* C40: every promise returned by add or enqueue settles in the end,
\* whatever add, enqueue and clear calls are made, given that every task
\* terminates.
C40_EveryPromiseSettles ==
  \A t \in 1..MaxTasks :
     (Len(promises) >= t /\ promises[t] = "pending")
       ~> (Len(promises) >= t /\ promises[t] # "pending")

\* the promise of a task that is not cleared settles
C40_SettlesUnlessCleared ==
  \A t \in 1..MaxTasks :
     (Len(promises) >= t /\ promises[t] = "pending")
       ~> (Len(promises) >= t /\ (promises[t] # "pending" \/ t \in dropped))

====

